---- MODULE Spec2Model ----
(***************************************************************************)
(* Model of src/component/mod.rs: the chat component tree (ChatComponent,  *)
(* ComponentType and the five payload structs), its accessors, its derived *)
(* Clone and its derived serde encoding.                                   *)
(*                                                                         *)
(* Owned components live in `store`, one object per ChatComponent; a Vec   *)
(* of components is the sequence of the addresses it owns.  A component    *)
(* read by value (as serde reads it through &self) is the tree View gives. *)
(***************************************************************************)
EXTENDS Integers, Sequences, FiniteSets, TLC

VARIABLES
    store,    \* address -> ChatComponent object {kind, style, siblings}
    root,     \* address of the caller's component, or Null
    copy,     \* address of the caller's clone of root, or Null
    wire,     \* the record on the wire (a JSON value), or None
    decoded,  \* result of decoding `wire`, or None
    pc,       \* "start" | "built" | "wire" | "done"
    last,     \* the last operation the caller performed and its target
    pa,       \* payload built with the chainable builder methods, or None
    pb,       \* payload built with the in-place setters, or None
    calls,    \* the calls applied to pa / pb so far, in order
    ops       \* number of mutations applied to the caller's components

vars == <<store, root, copy, wire, decoded, pc, last, pa, pb, calls, ops>>

(***************************************************************************)
(* Bounds and input sets                                                   *)
(***************************************************************************)
MaxNodes == 4        \* components alive in `store` at one time
MaxOps == 2          \* mutations applied to the caller's components in one run
MaxCalls == 3        \* builder / setter calls applied to one payload

Strings == {"Alice", "points"}
Addr == 1..MaxNodes
Null == MaxNodes + 1   \* no component: an address outside Addr

None == [some |-> FALSE]
Some(v) == [some |-> TRUE, v |-> v]
OptStrings == {None} \cup {Some(s) : s \in Strings}

(***************************************************************************)
(* ComponentStyle (crate::style): a flat bag of optional attributes.       *)
(***************************************************************************)
StyleValues == {None, Some(TRUE), Some(FALSE)}
DefaultStyle == [bold |-> None]
Styles == {[bold |-> b] : b \in {None, Some(TRUE)}}
StyleSetBold(style, b) == [style EXCEPT !.bold = b]

(***************************************************************************)
(* Payload structs: constructors, in-place setters, chainable builders.    *)
(* A payload is a record tagged with its ComponentType variant.            *)
(***************************************************************************)
TextComponent_from_text(t) == [tag |-> "Text", text |-> t]
get_text(self) == self.text
set_text(self, t) == [self EXCEPT !.text = t]
TextComponent_text(self, t) == set_text(self, t)

TranslationComponent_from_key(k) == [tag |-> "Translation", key |-> k, with |-> <<>>]
get_key(self) == self.key
set_key(self, k) == [self EXCEPT !.key = k]
TranslationComponent_key(self, k) == set_key(self, k)
\* Variant of add_arg that inserts at the front.
add_arg_Front(self, component) == [self EXCEPT !.with = <<component>> \o @]
add_arg(self, component) == [self EXCEPT !.with = Append(@, component)]
\* Variant of argument that returns self without adding.
TranslationComponent_argument_Dropped(self, component) == self
TranslationComponent_argument(self, component) == add_arg(self, component)

ScoreComponent_from_score(n, o) == [tag |-> "Score", name |-> n, objective |-> o, value |-> None]
get_name(self) == self.name
set_name(self, n) == [self EXCEPT !.name = n]
ScoreComponent_name(self, n) == set_name(self, n)
get_objective(self) == self.objective
set_objective(self, o) == [self EXCEPT !.objective = o]
ScoreComponent_objective(self, o) == set_objective(self, o)
get_value(self) == self.value
\* Variant of set_value that treats an absent argument as "leave as it is".
set_value_KeepOnNone(self, v) == IF v.some THEN [self EXCEPT !.value = Some(v.v)] ELSE self
set_value(self, v) == [self EXCEPT !.value = IF v.some THEN Some(v.v) ELSE None]
ScoreComponent_value(self, v) == set_value(self, v)

SelectorComponent_from_selector(s) == [tag |-> "Selector", selector |-> s]
get_selector(self) == self.selector
\* Variant of set_selector that rebuilds the payload as the look-alike keybind struct.
set_selector_AsKeybind(self, s) == [tag |-> "Keybind", keybind |-> s]
set_selector(self, s) == [self EXCEPT !.selector = s]
SelectorComponent_selector(self, s) == set_selector(self, s)

KeybindComponent_from_keybind(k) == [tag |-> "Keybind", keybind |-> k]
get_keybind(self) == self.keybind
set_keybind(self, k) == [self EXCEPT !.keybind = k]
KeybindComponent_keybind(self, k) == set_keybind(self, k)

\* Every payload a payload constructor can return.
FreshKinds ==
    {TextComponent_from_text(s) : s \in Strings}
    \cup {TranslationComponent_from_key(s) : s \in Strings}
    \cup {ScoreComponent_from_score(n, o) : n \in Strings, o \in Strings}
    \cup {SelectorComponent_from_selector(s) : s \in Strings}
    \cup {KeybindComponent_from_keybind(s) : s \in Strings}

(***************************************************************************)
(* ChatComponent objects in the store                                      *)
(***************************************************************************)
ChatComponent(kind, style, siblings) == [kind |-> kind, style |-> style, siblings |-> siblings]

Min(S) == CHOOSE x \in S : \A y \in S : x <= y
Free(st) == Addr \ DOMAIN st
Fresh(st) == Min(Free(st))

Range(s) == {s[i] : i \in 1..Len(s)}
With(kind) == IF kind.tag = "Translation" THEN kind.with ELSE <<>>

\* The addresses a component owns, itself included.
RECURSIVE Owned(_, _)
Owned(st, a) ==
    {a} \cup UNION {Owned(st, b) : b \in Range(st[a].siblings) \cup Range(With(st[a].kind))}

\* The components a caller can reach mutably from `a`: get_siblings_mut gives
\* the children; the `with` field has no accessor.
RECURSIVE Reachable(_, _)
Reachable(st, a) ==
    {a} \cup UNION {Reachable(st, b) : b \in Range(st[a].siblings)}

\* Dropping a set of components frees their objects.
Drop(st, as) == [a \in DOMAIN st \ as |-> st[a]]
OwnedBySeq(st, s) == UNION {Owned(st, b) : b \in Range(s)}

\* The component at `a` read by value: the whole tree below it.
RECURSIVE View(_, _)
ViewKind(st, kind) ==
    IF kind.tag = "Translation"
    THEN [kind EXCEPT !.with = [i \in 1..Len(kind.with) |-> View(st, kind.with[i])]]
    ELSE kind
View(st, a) ==
    ChatComponent(ViewKind(st, st[a].kind), st[a].style,
                  [i \in 1..Len(st[a].siblings) |-> View(st, st[a].siblings[i])])

\* #[derive(Clone)]: every field is cloned, a Vec by cloning each element.
RECURSIVE CloneComponent(_, _), CloneVec(_, _)
CloneVec(st, s) ==
    IF s = <<>> THEN [st |-> st, v |-> <<>>]
    ELSE LET h == CloneComponent(st, Head(s))
             r == CloneVec(h.st, Tail(s))
         IN [st |-> r.st, v |-> <<h.a>> \o r.v]
CloneKind(st, kind) ==
    IF kind.tag = "Translation"
    THEN LET w == CloneVec(st, kind.with)
         IN [st |-> w.st, kind |-> [kind EXCEPT !.with = w.v]]
    ELSE [st |-> st, kind |-> kind]
\* Variant of clone that hands out a second handle to the same object.
CloneComponent_Aliased(st, a) == [st |-> st, a |-> a]
CloneComponent(st, a) ==
    LET k == CloneKind(st, st[a].kind)
        s == CloneVec(k.st, st[a].siblings)
        n == Fresh(s.st)
    IN [st |-> (n :> ChatComponent(k.kind, st[a].style, s.v)) @@ s.st, a |-> n]

(***************************************************************************)
(* Constructors of ChatComponent                                           *)
(***************************************************************************)
Op(name, a) == [op |-> name, a |-> a]

Construct(kind, style, name) ==
    /\ pc = "start"
    /\ store' = (Fresh(store) :> ChatComponent(kind, style, <<>>)) @@ store
    /\ root' = Fresh(store)
    /\ pc' = "built"
    /\ last' = Op(name, Fresh(store))
    /\ UNCHANGED <<copy, wire, decoded, pa, pb, calls, ops>>

from_component(kind, style) == Construct(kind, style, "from_component")
from_text(t, style) == Construct(TextComponent_from_text(t), style, "from_text")
from_key(k, style) == Construct(TranslationComponent_from_key(k), style, "from_key")
from_score(n, o, style) == Construct(ScoreComponent_from_score(n, o), style, "from_score")
from_selector(s, style) == Construct(SelectorComponent_from_selector(s), style, "from_selector")
from_keybind(k, style) == Construct(KeybindComponent_from_keybind(k), style, "from_keybind")

(***************************************************************************)
(* Mutations through get_kind_mut, get_style_mut, DerefMut, get_siblings_mut*)
(***************************************************************************)
\* The components the caller holds or can borrow mutably.
Targets == UNION {Reachable(store, r) : r \in {root, copy} \ {Null}}

\* A component the caller constructs to hand over (as a child or an argument).
Leaves ==
    {ChatComponent(k, DefaultStyle, <<>>) : k \in
        {TextComponent_from_text(s) : s \in Strings}
        \cup {TranslationComponent_from_key("Alice")}}

\* A payload the caller constructs to assign over an existing one.
Replacements ==
    {TextComponent_from_text("points"), ScoreComponent_from_score("Alice", "points")}

CanMutate(a) == pc = "built" /\ ops < MaxOps /\ a \in Targets

Mutation(st, name, a) ==
    /\ store' = st
    /\ last' = Op(name, a)
    /\ ops' = ops + 1
    /\ UNCHANGED <<root, copy, wire, decoded, pc, pa, pb, calls>>

\* get_kind / get_kind_mut: the &ComponentType / &mut ComponentType.
get_kind(st, a) == st[a].kind
get_kind_mut(st, a, kind) == [st EXCEPT ![a].kind = kind]

\* match c.get_kind_mut() { ComponentType::Text(t) => t.set_text(..), .. }
WriteText(a, t) ==
    /\ CanMutate(a) /\ get_kind(store, a).tag = "Text"
    /\ Mutation(get_kind_mut(store, a, set_text(get_kind(store, a), t)), "set_text", a)
WriteKey(a, k) ==
    /\ CanMutate(a) /\ get_kind(store, a).tag = "Translation"
    /\ Mutation(get_kind_mut(store, a, set_key(get_kind(store, a), k)), "set_key", a)
WriteArg(a, leaf) ==
    /\ CanMutate(a) /\ get_kind(store, a).tag = "Translation"
    /\ Free(store) # {}
    /\ LET n == Fresh(store)
       IN Mutation(get_kind_mut((n :> leaf) @@ store, a, add_arg(get_kind(store, a), n)),
                   "add_arg", a)
WriteName(a, n) ==
    /\ CanMutate(a) /\ get_kind(store, a).tag = "Score"
    /\ Mutation(get_kind_mut(store, a, set_name(get_kind(store, a), n)), "set_name", a)
WriteObjective(a, o) ==
    /\ CanMutate(a) /\ get_kind(store, a).tag = "Score"
    /\ Mutation(get_kind_mut(store, a, set_objective(get_kind(store, a), o)), "set_objective", a)
WriteValue(a, v) ==
    /\ CanMutate(a) /\ get_kind(store, a).tag = "Score"
    /\ Mutation(get_kind_mut(store, a, set_value(get_kind(store, a), v)), "set_value", a)
WriteSelector(a, s) ==
    /\ CanMutate(a) /\ get_kind(store, a).tag = "Selector"
    /\ Mutation(get_kind_mut(store, a, set_selector(get_kind(store, a), s)), "set_selector", a)
WriteKeybind(a, k) ==
    /\ CanMutate(a) /\ get_kind(store, a).tag = "Keybind"
    /\ Mutation(get_kind_mut(store, a, set_keybind(get_kind(store, a), k)), "set_keybind", a)

\* *c.get_kind_mut() = kind: the old payload is dropped, its arguments with it.
AssignKind(a, kind) ==
    /\ CanMutate(a)
    /\ Mutation(get_kind_mut(Drop(store, OwnedBySeq(store, With(get_kind(store, a)))), a, kind),
                "assign_kind", a)

\* get_style / get_style_mut and Deref / DerefMut: the &ComponentStyle.
get_style(st, a) == st[a].style
get_style_mut(st, a, style) == [st EXCEPT ![a].style = style]
deref(st, a) == st[a].style
\* Variant of deref_mut that lends a temporary style, so the write is lost.
deref_mut_Detached(st, a, style) == st
deref_mut(st, a, style) == [st EXCEPT ![a].style = style]

WriteStyle(a, b) ==
    /\ CanMutate(a)
    /\ Mutation(get_style_mut(store, a, StyleSetBold(get_style(store, a), b)), "get_style_mut", a)
ForwardStyle(a, b) ==
    /\ CanMutate(a)
    /\ Mutation(deref_mut(store, a, StyleSetBold(deref(store, a), b)), "deref_mut", a)

\* get_siblings / get_siblings_mut: the &Vec / &mut Vec<ChatComponent>.
get_siblings(st, a) == st[a].siblings
get_siblings_mut(st, a, siblings) == [st EXCEPT ![a].siblings = siblings]

SiblingsPush(a, leaf) ==
    /\ CanMutate(a) /\ Free(store) # {}
    /\ LET n == Fresh(store)
       IN Mutation(get_siblings_mut((n :> leaf) @@ store, a, Append(get_siblings(store, a), n)),
                   "siblings_push", a)
SiblingsPop(a) ==
    /\ CanMutate(a) /\ get_siblings(store, a) # <<>>
    /\ LET s == get_siblings(store, a)
       IN Mutation(get_siblings_mut(Drop(store, Owned(store, s[Len(s)])), a, SubSeq(s, 1, Len(s) - 1)),
                   "siblings_pop", a)
SiblingsClear(a) ==
    /\ CanMutate(a) /\ get_siblings(store, a) # <<>>
    /\ Mutation(get_siblings_mut(Drop(store, OwnedBySeq(store, get_siblings(store, a))), a, <<>>),
                "siblings_clear", a)

\* let copy = root.clone();
Size(st, a) == Cardinality(Owned(st, a))
Clone ==
    /\ pc = "built" /\ copy = Null
    /\ Size(store, root) <= Cardinality(Free(store))
    /\ LET c == CloneComponent(store, root)
       IN /\ store' = c.st
          /\ copy' = c.a
          /\ last' = Op("clone", root)
    /\ UNCHANGED <<root, wire, decoded, pc, pa, pb, calls, ops>>

(***************************************************************************)
(* The derived serde encoding.  A wire value is a JSON value; an object is *)
(* a function from its keys to JSON values.                                *)
(***************************************************************************)
JStr(s) == [t |-> "str", s |-> s]
JBool(b) == [t |-> "bool", b |-> b]
JArr(a) == [t |-> "arr", a |-> a]
JObj(m) == [t |-> "obj", m |-> m]
JNull == [t |-> "null"]
Missing == [t |-> "missing"]
EmptyMap == [k \in {} |-> JNull]
Field(m, k) == IF k \in DOMAIN m THEN m[k] ELSE Missing

Ok(v) == [ok |-> TRUE, v |-> v]
Err == [ok |-> FALSE, err |-> "DecodeError"]

\* ComponentStyle: every attribute is optional and skipped when absent.
serialize_ComponentStyle(style) ==
    IF style.bold.some THEN "bold" :> JBool(style.bold.v) ELSE EmptyMap
deserialize_ComponentStyle(m) ==
    LET b == Field(m, "bold")
    IN IF b.t = "bool" THEN Ok([bold |-> Some(b.b)])
       ELSE IF b.t \in {"missing", "null"} THEN Ok([bold |-> None])
       ELSE Err

\* derive(Serialize): the fields of a struct, in declaration order.
RECURSIVE serialize_ChatComponent(_)
serialize_Vec(v) == JArr([i \in 1..Len(v) |-> JObj(serialize_ChatComponent(v[i]))])
serialize_TextComponent(self) == "text" :> JStr(self.text)
\* Variant that skips `with` when it is empty, as `extra` is skipped.
serialize_TranslationComponent_SkipEmpty(self) ==
    ("translate" :> JStr(self.key))
    @@ (IF self.with = <<>> THEN EmptyMap ELSE "with" :> serialize_Vec(self.with))
serialize_TranslationComponent(self) ==
    ("translate" :> JStr(self.key)) @@ ("with" :> serialize_Vec(self.with))
serialize_ScoreComponent(self) ==
    ("name" :> JStr(self.name)) @@ ("objective" :> JStr(self.objective))
    @@ (IF self.value.some THEN "value" :> JStr(self.value.v) ELSE EmptyMap)
serialize_SelectorComponent(self) == "selector" :> JStr(self.selector)
serialize_KeybindComponent(self) == "keybind" :> JStr(self.keybind)

\* serde(untagged): a variant is encoded as its payload, with no tag.
serialize_ComponentType(kind) ==
    CASE kind.tag = "Text" -> serialize_TextComponent(kind)
      [] kind.tag = "Translation" -> serialize_TranslationComponent(kind)
      [] kind.tag = "Score" -> serialize_ScoreComponent(kind)
      [] kind.tag = "Selector" -> serialize_SelectorComponent(kind)
      [] kind.tag = "Keybind" -> serialize_KeybindComponent(kind)

\* Variant without skip_serializing_if on `extra`.
serialize_ChatComponent_AlwaysExtra(c) ==
    serialize_ComponentType(c.kind) @@ serialize_ComponentStyle(c.style)
    @@ ("extra" :> serialize_Vec(c.siblings))

\* serde(flatten) on kind and style; `extra` skipped when the Vec is empty.
serialize_ChatComponent(c) ==
    serialize_ComponentType(c.kind) @@ serialize_ComponentStyle(c.style)
    @@ (IF c.siblings = <<>> THEN EmptyMap ELSE "extra" :> serialize_Vec(c.siblings))

\* derive(Deserialize): a struct needs every field that has no default;
\* unknown keys are ignored.
RECURSIVE deserialize_ChatComponent(_)
deserialize_Vec(j) ==
    IF j.t # "arr" THEN Err
    ELSE LET r == [i \in 1..Len(j.a) |-> deserialize_ChatComponent(j.a[i])]
         IN IF \A i \in 1..Len(r) : r[i].ok THEN Ok([i \in 1..Len(r) |-> r[i].v]) ELSE Err
deserialize_TextComponent(m) ==
    IF Field(m, "text").t = "str" THEN Ok([tag |-> "Text", text |-> m["text"].s]) ELSE Err
deserialize_TranslationComponent(m) ==
    IF Field(m, "translate").t = "str" /\ "with" \in DOMAIN m
    THEN LET w == deserialize_Vec(m["with"])
         IN IF w.ok THEN Ok([tag |-> "Translation", key |-> m["translate"].s, with |-> w.v])
            ELSE Err
    ELSE Err
deserialize_ScoreComponent(m) ==
    IF /\ Field(m, "name").t = "str" /\ Field(m, "objective").t = "str"
       /\ Field(m, "value").t \in {"str", "null", "missing"}
    THEN Ok([tag |-> "Score", name |-> m["name"].s, objective |-> m["objective"].s,
             value |-> IF Field(m, "value").t = "str" THEN Some(m["value"].s) ELSE None])
    ELSE Err
deserialize_SelectorComponent(m) ==
    IF Field(m, "selector").t = "str" THEN Ok([tag |-> "Selector", selector |-> m["selector"].s])
    ELSE Err
deserialize_KeybindComponent(m) ==
    IF Field(m, "keybind").t = "str" THEN Ok([tag |-> "Keybind", keybind |-> m["keybind"].s])
    ELSE Err

\* The variants of ComponentType in declaration order.
Variants == <<"Text", "Translation", "Score", "Selector", "Keybind">>
deserialize_Variant(tag, m) ==
    CASE tag = "Text" -> deserialize_TextComponent(m)
      [] tag = "Translation" -> deserialize_TranslationComponent(m)
      [] tag = "Score" -> deserialize_ScoreComponent(m)
      [] tag = "Selector" -> deserialize_SelectorComponent(m)
      [] tag = "Keybind" -> deserialize_KeybindComponent(m)

\* Variant that lets the last fitting variant win.
deserialize_ComponentType_LastWins(m) ==
    LET fits == {i \in 1..Len(Variants) : deserialize_Variant(Variants[i], m).ok}
    IN IF fits = {} THEN Err
       ELSE deserialize_Variant(Variants[CHOOSE i \in fits : \A j \in fits : j <= i], m)

\* serde(untagged): the variants are tried in declaration order and the
\* first that decodes wins; none decoding is the error.
deserialize_ComponentType(m) ==
    LET fits == {i \in 1..Len(Variants) : deserialize_Variant(Variants[i], m).ok}
    IN IF fits = {} THEN Err ELSE deserialize_Variant(Variants[Min(fits)], m)

deserialize_ChatComponent(j) ==
    IF j.t # "obj" THEN Err
    ELSE LET collect == [k \in DOMAIN j.m \ {"extra"} |-> j.m[k]]
             siblings == IF "extra" \in DOMAIN j.m THEN deserialize_Vec(j.m["extra"]) ELSE Ok(<<>>)
             kind == deserialize_ComponentType(collect)
             style == deserialize_ComponentStyle(collect)
         IN IF siblings.ok /\ kind.ok /\ style.ok
            THEN Ok(ChatComponent(kind.v, style.v, siblings.v))
            ELSE Err

\* serde_json::to_value(&root)
Serialize ==
    /\ pc = "built"
    /\ wire' = JObj(serialize_ChatComponent(View(store, root)))
    /\ pc' = "wire"
    /\ last' = Op("serialize", root)
    /\ UNCHANGED <<store, root, copy, decoded, pa, pb, calls, ops>>

\* serde_json::from_value::<ChatComponent>(wire)
Deserialize ==
    /\ pc = "wire"
    /\ decoded' = deserialize_ChatComponent(wire)
    /\ pc' = "done"
    /\ last' = Op("deserialize", root)
    /\ UNCHANGED <<store, root, copy, wire, pa, pb, calls, ops>>

\* A record arrives from a peer, one field at a time.
MaxFields == 3
Incoming ==
    [text |-> {JStr("Alice"), JBool(TRUE)},
     translate |-> {JStr("Alice")},
     with |-> {JArr(<<>>), JArr(<<JObj("text" :> JStr("points"))>>), JArr(<<JObj(EmptyMap)>>)},
     name |-> {JStr("Alice")},
     objective |-> {JStr("points")},
     value |-> {JStr("points"), JNull},
     selector |-> {JStr("Alice")},
     keybind |-> {JStr("Alice")},
     score |-> {JObj(("name" :> JStr("Alice")) @@ ("objective" :> JStr("points")))},
     extra |-> {JArr(<<JObj("text" :> JStr("points"))>>), JStr("points")},
     bold |-> {JBool(TRUE), JStr("Alice")}]
Receive(k, v) ==
    /\ pc \in {"start", "wire"} /\ root = Null
    /\ LET m == IF pc = "start" THEN EmptyMap ELSE wire.m
       IN /\ k \notin DOMAIN m
          /\ Cardinality(DOMAIN m) < MaxFields
          /\ wire' = JObj((k :> v) @@ m)
    /\ pc' = "wire"
    /\ last' = Op("receive", root)
    /\ UNCHANGED <<store, root, copy, decoded, pa, pb, calls, ops>>

(***************************************************************************)
(* A caller building one payload twice from the same constructor: `pa`     *)
(* with the chainable builders, `pb` with the in-place setters.            *)
(***************************************************************************)
Call(fn, arg) == [fn |-> fn, arg |-> arg]

PayloadNew(kind) ==
    /\ pc = "start" /\ root = Null /\ wire = None /\ calls = <<>>
    /\ pa' = kind
    /\ pb' = kind
    /\ calls' = <<Call("new", kind)>>
    /\ UNCHANGED <<store, root, copy, wire, decoded, pc, last, ops>>

PayloadCall(tag, fn, arg, built, set) ==
    /\ calls # <<>> /\ Len(calls) <= MaxCalls
    /\ pa.tag = tag
    /\ pa' = built
    /\ pb' = set
    /\ calls' = Append(calls, Call(fn, arg))
    /\ UNCHANGED <<store, root, copy, wire, decoded, pc, last, ops>>

CallText(t) == PayloadCall("Text", "text", t, TextComponent_text(pa, t), set_text(pb, t))
CallKey(k) == PayloadCall("Translation", "key", k, TranslationComponent_key(pa, k), set_key(pb, k))
CallArgument(c) ==
    PayloadCall("Translation", "argument", c, TranslationComponent_argument(pa, c), add_arg(pb, c))
CallName(n) == PayloadCall("Score", "name", n, ScoreComponent_name(pa, n), set_name(pb, n))
CallObjective(o) ==
    PayloadCall("Score", "objective", o, ScoreComponent_objective(pa, o), set_objective(pb, o))
CallValue(v) == PayloadCall("Score", "value", v, ScoreComponent_value(pa, v), set_value(pb, v))
CallSelector(x) ==
    PayloadCall("Selector", "selector", x, SelectorComponent_selector(pa, x), set_selector(pb, x))
CallKeybind(k) ==
    PayloadCall("Keybind", "keybind", k, KeybindComponent_keybind(pa, k), set_keybind(pb, k))

(***************************************************************************)
(* Specification of a caller that builds, mutates and clones a component   *)
(***************************************************************************)
Init ==
    /\ store = <<>>
    /\ root = Null
    /\ copy = Null
    /\ wire = None
    /\ decoded = None
    /\ pc = "start"
    /\ last = Op("none", Null)
    /\ pa = None
    /\ pb = None
    /\ calls = <<>>
    /\ ops = 0

Next ==
    \/ \E k \in Replacements : from_component(k, DefaultStyle)
    \/ from_text("Alice", DefaultStyle)
    \/ from_key("Alice", DefaultStyle)
    \/ from_score("Alice", "points", DefaultStyle)
    \/ from_selector("Alice", DefaultStyle)
    \/ from_keybind("Alice", DefaultStyle)
    \/ \E a \in Addr, t \in Strings : WriteText(a, t)
    \/ \E a \in Addr, t \in Strings : WriteKey(a, t)
    \/ \E a \in Addr, l \in Leaves : WriteArg(a, l)
    \/ \E a \in Addr, t \in Strings : WriteName(a, t)
    \/ \E a \in Addr, t \in Strings : WriteObjective(a, t)
    \/ \E a \in Addr, v \in OptStrings : WriteValue(a, v)
    \/ \E a \in Addr, t \in Strings : WriteSelector(a, t)
    \/ \E a \in Addr, t \in Strings : WriteKeybind(a, t)
    \/ \E a \in Addr, k \in Replacements : AssignKind(a, k)
    \/ \E a \in Addr, b \in StyleValues : WriteStyle(a, b)
    \/ \E a \in Addr, b \in StyleValues : ForwardStyle(a, b)
    \/ \E a \in Addr, l \in Leaves : SiblingsPush(a, l)
    \/ \E a \in Addr : SiblingsPop(a)
    \/ \E a \in Addr : SiblingsClear(a)
    \/ Clone

Spec == Init /\ [][Next]_vars

(***************************************************************************)
(* Specification of a caller that builds a component and exchanges it      *)
(***************************************************************************)
NextCodec ==
    \/ \E t \in Strings, s \in Styles : from_text(t, s)
    \/ \E t \in Strings, s \in Styles : from_key(t, s)
    \/ \E n \in Strings, o \in Strings, s \in Styles : from_score(n, o, s)
    \/ \E t \in Strings, s \in Styles : from_selector(t, s)
    \/ \E t \in Strings, s \in Styles : from_keybind(t, s)
    \/ \E a \in Addr, t \in Strings : WriteText(a, t)
    \/ \E a \in Addr, l \in Leaves : WriteArg(a, l)
    \/ \E a \in Addr, v \in OptStrings : WriteValue(a, v)
    \/ \E a \in Addr, b \in StyleValues : WriteStyle(a, b)
    \/ \E a \in Addr, l \in Leaves : SiblingsPush(a, l)
    \/ \E a \in Addr : SiblingsPop(a)
    \/ \E a \in Addr : SiblingsClear(a)
    \/ Serialize
    \/ Deserialize
    \/ \E k \in DOMAIN Incoming : \E v \in Incoming[k] : Receive(k, v)

SpecCodec == Init /\ [][NextCodec]_vars

(***************************************************************************)
(* Specification of a caller that builds payloads                          *)
(***************************************************************************)
NextPayload ==
    \/ \E k \in FreshKinds : PayloadNew(k)
    \/ \E t \in Strings : CallText(t)
    \/ \E t \in Strings : CallKey(t)
    \/ \E l \in Leaves : CallArgument(l)
    \/ \E t \in Strings : CallName(t)
    \/ \E t \in Strings : CallObjective(t)
    \/ \E v \in OptStrings : CallValue(v)
    \/ \E t \in Strings : CallSelector(t)
    \/ \E t \in Strings : CallKeybind(t)

SpecPayload == Init /\ [][NextPayload]_vars

(***************************************************************************)
(* Properties of the encoding (SpecCodec)                                  *)
(***************************************************************************)
Sent == pc \in {"wire", "done"} /\ root # Null
Rootv == View(store, root)

\* C1: decoding the encoding of a component yields an equal component, for
\* every variant, any number of children and any number of arguments.
RoundTrip == (pc = "done" /\ root # Null) => decoded = Ok(Rootv)

RoundTripWitness ==
    /\ pc = "done" /\ root # Null /\ last.op = "deserialize"
    /\ decoded.ok
    /\ decoded.v.kind.tag = "Translation"
    /\ Len(decoded.v.kind.with) = 1
    /\ Len(decoded.v.siblings) = 1

\* The variants whose own decoder accepts the fields of record m.
Fits(m) == {i \in 1..Len(Variants) : deserialize_Variant(Variants[i], m).ok}
Collected(m) == [k \in DOMAIN m \ {"extra"} |-> m[k]]
RestDecodes(m) ==
    /\ deserialize_ComponentStyle(Collected(m)).ok
    /\ "extra" \in DOMAIN m => deserialize_Vec(m["extra"]).ok

\* C2 as stated: a record fitting no variant, or more than one, fails to decode.
AmbiguousRejected ==
    (pc = "done" /\ Cardinality(Fits(Collected(wire.m))) # 1) => ~decoded.ok

\* C2 as amended: a record fitting no variant fails to decode; a record
\* fitting one or more variants, with well-formed style fields and `extra`,
\* decodes as the first fitting variant in declaration order.
FirstVariantWins ==
    pc = "done" =>
        LET fits == Fits(Collected(wire.m))
        IN /\ fits = {} => ~decoded.ok
           /\ (fits # {} /\ RestDecodes(wire.m)) =>
                 /\ decoded.ok
                 /\ decoded.v.kind.tag = Variants[Min(fits)]
           /\ decoded.ok => (fits # {} /\ RestDecodes(wire.m))

FirstVariantWinsWitness ==
    /\ pc = "done" /\ root = Null
    /\ {"text", "selector"} \subseteq DOMAIN wire.m
    /\ Cardinality(Fits(Collected(wire.m))) = 2
    /\ decoded.ok /\ decoded.v.kind.tag = "Text"

\* C3: the encoding has no `extra` field when the component has no children,
\* and otherwise an `extra` field holding the children's encodings in order.
ExtraOmission ==
    Sent =>
        IF Rootv.siblings = <<>>
        THEN "extra" \notin DOMAIN wire.m
        ELSE /\ "extra" \in DOMAIN wire.m
             /\ wire.m["extra"].t = "arr"
             /\ Len(wire.m["extra"].a) = Len(Rootv.siblings)
             /\ \A i \in 1..Len(Rootv.siblings) :
                    wire.m["extra"].a[i] = JObj(serialize_ChatComponent(Rootv.siblings[i]))
             /\ deserialize_Vec(wire.m["extra"]) = Ok(Rootv.siblings)

ExtraOmissionWitness ==
    /\ Sent /\ ops = 2
    /\ "extra" \in DOMAIN wire.m
    /\ Len(wire.m["extra"].a) = 2
    /\ wire.m["extra"].a[1] # wire.m["extra"].a[2]

\* C4 as stated: a Score component is encoded as a top-level `score` field
\* holding the object {name, objective} plus `value` when one is set.
ScoreNested ==
    (Sent /\ Rootv.kind.tag = "Score") =>
        /\ "score" \in DOMAIN wire.m
        /\ wire.m["score"] =
              JObj(("name" :> JStr(Rootv.kind.name)) @@ ("objective" :> JStr(Rootv.kind.objective))
                   @@ (IF Rootv.kind.value.some THEN "value" :> JStr(Rootv.kind.value.v)
                       ELSE EmptyMap))

(***************************************************************************)
(* Properties of components and their clones (Spec)                        *)
(***************************************************************************)
\* C5: a mutation applied to the clone (or below it) leaves the original's
\* whole tree as it was, and a mutation applied to the original (or below
\* it) leaves the clone's whole tree as it was.
CloneIndependent ==
    [][(copy # Null /\ copy' = copy /\ ops' = ops + 1) =>
          /\ last'.a \in Reachable(store, copy) => View(store', root) = View(store, root)
          /\ last'.a \in Reachable(store, root) => View(store', copy) = View(store, copy)]_vars

CloneIndependentWitness ==
    /\ copy # Null
    /\ last.op = "set_text"
    /\ last.a \in Reachable(store, copy) \ {copy}
    /\ View(store, copy) # View(store, root)

\* C6: a style write through DerefMut and the same write through
\* get_style_mut give equal components; a read through Deref is the read
\* through get_style; a forwarded write changes neither payload nor children.
StyleTransparency ==
    pc = "built" =>
        /\ \A a \in Targets :
              /\ deref(store, a) = get_style(store, a)
              /\ \A b \in StyleValues :
                    LET fwd == deref_mut(store, a, StyleSetBold(deref(store, a), b))
                        exp == get_style_mut(store, a, StyleSetBold(get_style(store, a), b))
                    IN /\ View(fwd, a) = View(exp, a)
                       /\ get_kind(fwd, a) = get_kind(store, a)
                       /\ get_siblings(fwd, a) = get_siblings(store, a)
        /\ (copy # Null /\ View(store, root) = View(store, copy)) =>
              \A b \in StyleValues :
                  View(deref_mut(store, root, StyleSetBold(deref(store, root), b)), root)
                  = View(get_style_mut(store, copy, StyleSetBold(get_style(store, copy), b)), copy)

StyleTransparencyWitness ==
    /\ pc = "built" /\ copy # Null
    /\ last.op = "deref_mut" /\ last.a = root
    /\ get_style(store, root).bold = Some(TRUE)
    /\ View(store, root) = View(store, copy)

\* C8 as stated: no operation changes the variant of a component's kind.
KindImmutable ==
    [][\A a \in DOMAIN store \cap DOMAIN store' :
          get_kind(store', a).tag = get_kind(store, a).tag]_vars

\* C8 as amended: the payload setters applied through get_kind_mut, and the
\* style, children and clone operations, never change the variant; only
\* assigning a whole ComponentType through get_kind_mut does.
KindChangesOnlyByAssignment ==
    [][last'.op # "assign_kind" =>
          \A a \in DOMAIN store \cap DOMAIN store' :
              get_kind(store', a).tag = get_kind(store, a).tag]_vars

KindChangesOnlyByAssignmentWitness ==
    /\ pc = "built"
    /\ last.op = "set_selector"
    /\ get_kind(store, last.a).tag = "Selector"
    /\ get_selector(get_kind(store, last.a)) = "points"

(***************************************************************************)
(* Properties of the payload builders (SpecPayload)                        *)
(***************************************************************************)
\* C7: a chain of builder calls yields the payload the same in-place setter
\* calls yield.
BuilderChainEquivalence == pa = pb

BuilderChainEquivalenceWitness ==
    /\ Len(calls) = 4
    /\ pa.tag = "Translation"
    /\ get_key(pa) = "points"
    /\ Len(pa.with) = 2

IsValueCall(c) == c.fn = "value"
IsNameCall(c) == c.fn = "name"
IsObjectiveCall(c) == c.fn = "objective"
IsKeyCall(c) == c.fn = "key"
IsArgumentCall(c) == c.fn = "argument"
LastArg(s, default) == IF s = <<>> THEN default ELSE s[Len(s)].arg

\* C9: from_score leaves the value absent; get_value is the argument of the
\* last set_value / value call; a last call with absent leaves the payload
\* and its encoding in the no-value form of a fresh Score of the same name
\* and objective; value calls leave name and objective alone.
ScoreValueOverride ==
    (calls # <<>> /\ pa.tag = "Score") =>
        LET lastv == LastArg(SelectSeq(calls, IsValueCall), None)
            fresh == ScoreComponent_from_score(get_name(pa), get_objective(pa))
        IN /\ get_value(pa) = lastv
           /\ get_value(pb) = lastv
           /\ get_name(pa) = LastArg(SelectSeq(calls, IsNameCall), calls[1].arg.name)
           /\ get_objective(pa) = LastArg(SelectSeq(calls, IsObjectiveCall), calls[1].arg.objective)
           /\ ~lastv.some =>
                 /\ pa = fresh
                 /\ serialize_ScoreComponent(pa) = serialize_ScoreComponent(fresh)
                 /\ "value" \notin DOMAIN serialize_ScoreComponent(pa)
           /\ lastv.some => serialize_ScoreComponent(pa)["value"] = JStr(lastv.v)

ScoreValueOverrideWitness ==
    /\ Len(calls) = 3
    /\ pa.tag = "Score"
    /\ calls[2] = Call("value", Some("points"))
    /\ calls[3] = Call("value", None)
    /\ get_value(pa) = None

\* C10: from_key leaves the argument list empty; the list is the components
\* given to add_arg / argument, in call order; the key is untouched by them;
\* the encoding is {translate: key, with: [the arguments in order]}.
TranslationAppendOnly ==
    (calls # <<>> /\ pa.tag = "Translation") =>
        LET added == SelectSeq(calls, IsArgumentCall)
            args == [i \in 1..Len(added) |-> added[i].arg]
            k == LastArg(SelectSeq(calls, IsKeyCall), calls[1].arg.key)
        IN /\ pa.with = args
           /\ pb.with = args
           /\ get_key(pa) = k
           /\ serialize_TranslationComponent(pa) =
                 ("translate" :> JStr(k))
                 @@ ("with" :> JArr([i \in 1..Len(args) |-> JObj(serialize_ChatComponent(args[i]))]))

TranslationAppendOnlyWitness ==
    /\ Len(calls) = 3
    /\ pa.tag = "Translation"
    /\ calls[2].fn = "argument" /\ calls[3].fn = "argument"
    /\ calls[2].arg # calls[3].arg
    /\ pa.with = <<calls[2].arg, calls[3].arg>>
====
